---- MODULE Spec2Model ----
(***************************************************************************)
(* A model of new_callsigns (src/main.py): the `print` pipeline            *)
(* (download, entry-count check, extract, People.from_folder, table) with  *)
(* the record loader, the per-person aggregation and Person.__getattr__.   *)
(*                                                                         *)
(* Text is a sequence of tokens: "\n", "|" or an atom (a non-empty run of  *)
(* characters holding neither delimiter).  str.split is modelled on the    *)
(* tokens.  A dict is a sequence of [key, val] entries in insertion order  *)
(* (Python 3.7+ dict order), a defaultdict inserts its default on a miss.  *)
(***************************************************************************)
EXTENDS Integers, Sequences, FiniteSets, TLC

VARIABLES pc, archive, dir, typeIdx, path, records, pos, people, skipped,
          loaded, trace, stdout, stderr, exitCode

vars == <<pc, archive, dir, typeIdx, path, records, pos, people, skipped,
          loaded, trace, stdout, stderr, exitCode>>

----------------------------------------------------------------------------
(* Bounds of the model *)

\* most lines in a directory of the aggregation family
MaxLines == 3
\* most entries of a downloaded archive
MaxEntries == 2
\* most columns a line has beyond its schema
MaxExtra == 1

----------------------------------------------------------------------------
(* Record schema *)

RECORD_TYPES == <<"header", "amateur", "entity", "vanity">>

Camelize(record_type) ==
    CASE record_type = "header" -> "Header"
      [] record_type = "amateur" -> "Amateur"
      [] record_type = "entity" -> "Entity"
      [] record_type = "vanity" -> "Vanity"

Classes == {"Header", "Amateur", "Entity", "Vanity"}

RECORD_TYPE(cls) ==
    CASE cls = "Header" -> "HD"
      [] cls = "Amateur" -> "AM"
      [] cls = "Entity" -> "EN"
      [] cls = "Vanity" -> "VC"

HeaderFIELDS ==
    <<"record_type", "unique_system_identifier", "uls_file_number",
      "ebf_number", "call_sign", "license_status", "radio_service_code",
      "grant_date", "expired_date", "cancellation_date",
      "eligibility_rule_num", "reserved", "alien", "alien_government",
      "alien_corporation", "alien_officer", "alien_control", "revoked",
      "convicted", "adjudged", "reserved", "common_carrier",
      "non_common_carrier", "private_comm", "fixed", "mobile",
      "radiolocation", "satellite", "test", "interconnected_service",
      "certifier_first_name", "certifier_mi", "certifier_last_name",
      "certifier_suffix", "certifier_title", "female", "black",
      "native_american", "hawaiian", "asian", "white", "hispanic",
      "effective_date", "last_action_date", "auction_id",
      "broadcast_services", "band_manager", "broadcast_services",
      "alien_ruling", "licensee_name_change">>

AmateurFIELDS ==
    <<"record_type", "unique_system_identifier", "uls_file_number",
      "ebf_number", "call_sign", "operator_class", "group_code",
      "region_code", "trustee_call_sign", "trustee_indicator",
      "physician_certification", "ve_signature",
      "systematic_call_sign_change", "vanity_call_sign_change",
      "vanity_relationship", "previous_call_sign",
      "previous_operator_class", "trustee_name">>

EntityFIELDS ==
    <<"record_type", "unique_system_identifier", "uls_file_number",
      "ebf_number", "call_sign", "entity_type", "licensee_id",
      "entity_name", "first_name", "mi", "last_name", "suffix", "phone",
      "fax", "email", "street_address", "city", "state", "zip_code",
      "po_box", "attention_line", "sgin", "fCC_registration_number",
      "applicant_type_code", "applicant_type_code_other", "status_code",
      "status_date">>

VanityFIELDS ==
    <<"record_type", "unique_system_identifier", "uls_file_number",
      "ebf_number", "order_of_preference", "requested_call_sign">>

FIELDS(cls) ==
    CASE cls = "Header" -> HeaderFIELDS
      [] cls = "Amateur" -> AmateurFIELDS
      [] cls = "Entity" -> EntityFIELDS
      [] cls = "Vanity" -> VanityFIELDS

\* the names a class's TRANSFORMS maps (each to titleize)
TRANSFORMS(cls) ==
    IF cls = "Entity" THEN {"entity_name", "first_name", "last_name"} ELSE {}

\* inflection.titleize on the strings the model's files hold; every other
\* string of the model ("", digits, "C<n>", "T") is a fixed point of it
Titleize(s) ==
    CASE s = "john smith" -> "John Smith"
      [] s = "-" -> " "
      [] s = "W1AW" -> "W1 Aw"
      [] s = "K1ABC" -> "K1 Abc"
      [] s = "HD" -> "Hd"
      [] s = "AM" -> "Am"
      [] s = "EN" -> "En"
      [] s = "VC" -> "Vc"
      [] OTHER -> s

----------------------------------------------------------------------------
(* Text and dicts *)

NL == "\n"

BAR == "|"

\* str.split(sep): the segments between the separators, at least one
RECURSIVE Split(_, _)
Split(s, sep) ==
    IF \A i \in 1..Len(s) : s[i] # sep
    THEN <<s>>
    ELSE LET k == CHOOSE i \in 1..Len(s) :
                      s[i] = sep /\ \A j \in 1..(i - 1) : s[j] # sep
         IN  <<SubSeq(s, 1, k - 1)>> \o Split(SubSeq(s, k + 1, Len(s)), sep)

\* the string a run of atoms spells
RECURSIVE Str(_)
Str(seg) == IF seg = <<>> THEN "" ELSE Head(seg) \o Str(Tail(seg))

Min(a, b) == IF a <= b THEN a ELSE b

EmptyDict == [k \in {} |-> ""]

\* {f: v for f, v in zip(keys, vals)} restricted to the first n pairs: a
\* later pair with the same key replaces the earlier one
RECURSIVE ZipDict(_, _, _)
ZipDict(keys, vals, n) ==
    IF n = 0 THEN EmptyDict
    ELSE (keys[n] :> vals[n]) @@ ZipDict(keys, vals, n - 1)

DictKeys(d) == {d[i].key : i \in 1..Len(d)}

DictIndex(d, k) == CHOOSE i \in 1..Len(d) : d[i].key = k

\* defaultdict.__getitem__: a missing key is inserted with the default,
\* at the end of the insertion order
DefaultDictTouch(d, k, default) ==
    IF k \in DictKeys(d) THEN d ELSE Append(d, [key |-> k, val |-> default])

\* ', '.join(entries)
RECURSIVE Join(_)
Join(entries) ==
    IF Len(entries) = 0 THEN ""
    ELSE IF Len(entries) = 1 THEN entries[1]
    ELSE entries[1] \o ", " \o Join(Tail(entries))

----------------------------------------------------------------------------
(* Record loader *)

FromLineTransformed(cls, line) ==
    LET cols == Split(line, BAR)
        n == Min(Len(FIELDS(cls)), Len(cols))
        vals == [i \in 1..n |->
                    IF FIELDS(cls)[i] \in TRANSFORMS(cls)
                    THEN Titleize(Str(cols[i])) ELSE Str(cols[i])]
    IN  [cls |-> cls, fields |-> ZipDict(FIELDS(cls), vals, n)]

\* Record.from_line
FromLine(cls, line) ==
    LET cols == Split(line, BAR)
        n == Min(Len(FIELDS(cls)), Len(cols))
        vals == [i \in 1..n |-> Str(cols[i])]
    IN  [cls |-> cls, fields |-> ZipDict(FIELDS(cls), vals, n)]

\* the statuses of a file for which open()/read() raises IOError (OSError)
RaisesIOError(status) == status \in {"absent", "denied"}

\* read() raises UnicodeDecodeError, a ValueError
RaisesDecodeError(status) == status = "undecodable"

RECURSIVE ParseLines(_, _)
ParseLines(cls, lines) ==
    IF lines = <<>> THEN <<>>
    ELSE IF Head(lines) = <<>> THEN ParseLines(cls, Tail(lines))
    ELSE <<FromLine(cls, Head(lines))>> \o ParseLines(cls, Tail(lines))

\* Record.load_file on a file that opens and decodes
LoadFile(cls, text) == ParseLines(cls, Split(text, NL))

----------------------------------------------------------------------------
(* Person aggregator *)

NewPerson == [records |-> <<>>]

AddRecordPrepend(person, record_type, record) ==
    LET d == DefaultDictTouch(person.records, record_type, <<>>)
        i == DictIndex(d, record_type)
    IN  [records |-> [d EXCEPT ![i].val = <<record>> \o @]]

\* Person.add_record
AddRecord(person, record_type, record) ==
    LET d == DefaultDictTouch(person.records, record_type, <<>>)
        i == DictIndex(d, record_type)
    IN  [records |-> [d EXCEPT ![i].val = Append(@, record)]]

\* hasattr(record, attr) for a field name
HasAttr(record, attr) == attr \in DOMAIN record.fields

\* the entries one bucket yields for attr
RECURSIVE Entries(_, _)
Entries(recs, attr) ==
    IF recs = <<>> THEN <<>>
    ELSE LET record == Head(recs)
             rest == Entries(Tail(recs), attr)
         IN  IF ~HasAttr(record, attr) THEN rest
             ELSE IF record.fields[attr] = "" THEN rest
             ELSE IF attr \in TRANSFORMS(record.cls)
             THEN <<Titleize(record.fields[attr])>> \o rest
             ELSE <<record.fields[attr]>> \o rest

RECURSIVE Resolve(_, _)
Resolve(buckets, attr) ==
    IF buckets = <<>> THEN "-"
    ELSE LET entries == Entries(Head(buckets).val, attr)
         IN  IF entries # <<>> THEN Join(entries)
             ELSE Resolve(Tail(buckets), attr)

RECURSIVE ResolveLast(_, _)
ResolveLast(buckets, attr) ==
    IF buckets = <<>> THEN "-"
    ELSE LET entries == Entries(buckets[Len(buckets)].val, attr)
         IN  IF entries # <<>> THEN Join(entries)
             ELSE ResolveLast(SubSeq(buckets, 1, Len(buckets) - 1), attr)

PersonGetattrLastWins(person, attr) == ResolveLast(person.records, attr)

PersonGetattrNoSpace(person, attr) ==
    LET hit == {i \in 1..Len(person.records) :
                    Entries(person.records[i].val, attr) # <<>>}
    IN  IF hit = {} THEN "-"
        ELSE LET i == CHOOSE i \in hit : \A j \in hit : i <= j
                 e == Entries(person.records[i].val, attr)
             IN  IF Len(e) = 1 THEN e[1] ELSE e[1] \o "," \o Join(Tail(e))

\* Person.__getattr__: the value returned
PersonGetattr(person, attr) == Resolve(person.records, attr)

\* Person.__getattr__: the Person afterwards (it assigns nothing)
PersonAfterGetattr(person, attr) == person

----------------------------------------------------------------------------
(* People collection *)

\* People.load_records, one iteration of its loop
InsertRecord(ppl, record_type, record) ==
    LET d == DefaultDictTouch(ppl, record.fields["unique_system_identifier"],
                              NewPerson)
        i == DictIndex(d, record.fields["unique_system_identifier"])
    IN  [d EXCEPT ![i].val = AddRecord(@, record_type, record)]

----------------------------------------------------------------------------
(* Inputs: the directories a run can find after extraction *)

Tags == {"HD", "AM", "EN", "VC"}

Ids == {"1", "2"}

\* the non-identifier column text of the aggregation family's lines
Values(cls) ==
    CASE cls = "Header" -> {"", "W1AW"}
      [] cls = "Amateur" -> {"T"}
      [] cls = "Entity" -> {"", "john smith"}
      [] cls = "Vanity" -> {"K1ABC", "-"}

RECURSIVE MkLine(_)
MkLine(cols) ==
    IF Len(cols) = 0 THEN <<>>
    ELSE LET c == IF cols[Len(cols)] = "" THEN <<>> ELSE <<cols[Len(cols)]>>
         IN  IF Len(cols) = 1 THEN c
             ELSE MkLine(SubSeq(cols, 1, Len(cols) - 1)) \o <<BAR>> \o c

\* each line followed by a newline
RECURSIVE MkText(_)
MkText(lines) ==
    IF lines = <<>> THEN <<>>
    ELSE Head(lines) \o <<NL>> \o MkText(Tail(lines))

\* a line of n columns: the tag, the identifier, then "C<i>" in column i
LineP(cls, id, n) ==
    MkLine([i \in 1..n |-> IF i = 1 THEN RECORD_TYPE(cls)
                           ELSE IF i = 2 THEN id
                           ELSE "C" \o ToString(i)])

\* a line as wide as the schema: the tag, the identifier, then v everywhere
LineG(cls, id, v) ==
    MkLine([i \in 1..Len(FIELDS(cls)) |-> IF i = 1 THEN RECORD_TYPE(cls)
                                          ELSE IF i = 2 THEN id
                                          ELSE v])

FileAbsent == [status |-> "absent", text |-> <<>>]

FileOk(text) == [status |-> "ok", text |-> text]

MkDir(h, a, e, v) ==
    [t \in Tags |-> CASE t = "HD" -> h [] t = "AM" -> a
                      [] t = "EN" -> e [] t = "VC" -> v]

NoDir == MkDir(FileAbsent, FileAbsent, FileAbsent, FileAbsent)

\* parsing family: one file, one or two lines (a blank line between them)
\* of every width from one column to MaxExtra beyond the schema
TextsP(cls) ==
    LET W == Len(FIELDS(cls)) + MaxExtra
    IN  {MkText(<<LineP(cls, "1", n)>>) : n \in 1..W}
        \cup {MkText(<<LineP(cls, "1", n), <<>>,
                       LineP(cls, "2", Len(FIELDS(cls)))>>) : n \in 1..W}

DirsP ==
    UNION {{[NoDir EXCEPT ![RECORD_TYPE(cls)] = FileOk(text)] :
                text \in TextsP(cls)} : cls \in Classes}

SeqsUpTo(S, n) == UNION {[1..k -> S] : k \in 0..n}

LinesG(cls) == {LineG(cls, id, v) : id \in Ids, v \in Values(cls)}

FileG(lines) == IF lines = <<>> THEN FileAbsent ELSE FileOk(MkText(lines))

\* aggregation family: readable files, at most MaxLines lines in all
DirsG ==
    UNION {UNION {UNION {
        {MkDir(FileG(h), FileG(a), FileG(e), FileG(v)) :
            v \in SeqsUpTo(LinesG("Vanity"),
                           MaxLines - Len(h) - Len(a) - Len(e))} :
          e \in SeqsUpTo(LinesG("Entity"), MaxLines - Len(h) - Len(a))} :
        a \in SeqsUpTo(LinesG("Amateur"), MaxLines - Len(h))} :
      h \in SeqsUpTo(LinesG("Header"), MaxLines)}

\* failure family: each file absent, unreadable, undecodable, empty, one
\* line without a separator, or one full line
FilesF(cls) ==
    {FileAbsent,
     [status |-> "denied", text |-> <<>>],
     [status |-> "undecodable", text |-> <<>>],
     FileOk(<<>>),
     FileOk(MkText(<<LineP(cls, "1", 1)>>)),
     FileOk(MkText(<<LineG(cls, "1", "T")>>))}

DirsF ==
    {MkDir(h, a, e, v) : h \in FilesF("Header"), a \in FilesF("Amateur"),
                         e \in FilesF("Entity"), v \in FilesF("Vanity")}

Dirs == DirsP \cup DirsG \cup DirsF

\* args.operator_class: unset, or one of the parser's choices
OperatorClassArgs == {"None", "T"}

----------------------------------------------------------------------------
(* The print pipeline *)

\* the columns of the printed table
attributes == <<"entity_name", "call_sign", "operator_class",
                "requested_call_sign">>

IncompleteMessage == "Incomplete zipfile retrieved from FCC"

Init ==
    /\ pc = "start"
    /\ archive \in 0..MaxEntries
    /\ dir = NoDir
    /\ typeIdx = 1
    /\ path = ""
    /\ records = <<>>
    /\ pos = 1
    /\ people = <<>>
    /\ skipped = {}
    /\ loaded = <<>>
    /\ trace = <<>>
    /\ stdout = <<>>
    /\ stderr = ""
    /\ exitCode = -1

\* download_fcc_data
Download ==
    /\ pc = "start"
    /\ pc' = "downloaded"
    /\ trace' = Append(trace, "download")
    /\ UNCHANGED <<archive, dir, typeIdx, path, records, pos, people,
                   skipped, loaded, stdout, stderr, exitCode>>

\* len(zipfile.namelist()) <= 1: report and sys.exit(1)
ArchiveIncomplete ==
    /\ pc = "downloaded"
    /\ archive <= 1
    /\ pc' = "exited"
    /\ trace' = Append(trace, "check")
    /\ stderr' = IncompleteMessage
    /\ exitCode' = 1
    /\ UNCHANGED <<archive, dir, typeIdx, path, records, pos, people,
                   skipped, loaded, stdout>>

\* the check passes; zipfile.extractall; People() is created
Extract ==
    /\ pc = "downloaded"
    /\ ~(archive <= 1)
    /\ \E d \in Dirs : dir' = d
    /\ pc' = "load"
    /\ typeIdx' = 1
    /\ people' = <<>>
    /\ trace' = trace \o <<"check", "extract">>
    /\ UNCHANGED <<archive, path, records, pos, skipped, loaded, stdout,
                   stderr, exitCode>>

\* the loop over RECORD_TYPES moves on; from_folder returns after the last
NextType ==
    IF typeIdx < Len(RECORD_TYPES)
    THEN /\ typeIdx' = typeIdx + 1
         /\ pc' = "load"
         /\ trace' = trace
    ELSE /\ typeIdx' = typeIdx
         /\ pc' = "built"
         /\ trace' = Append(trace, "build")

CurrentClass == Camelize(RECORD_TYPES[typeIdx])

CurrentFile == dir[RECORD_TYPE(CurrentClass)]

\* load_file raises RecordNonexistentException on IOError; from_folder
\* catches it and passes
LoadFileIOError ==
    /\ pc = "load"
    /\ RaisesIOError(CurrentFile.status)
    /\ path' = RECORD_TYPE(CurrentClass)
    /\ records' = <<>>
    /\ skipped' = skipped \cup {RECORD_TYPES[typeIdx]}
    /\ NextType
    /\ UNCHANGED <<archive, dir, pos, people, loaded, stdout, stderr,
                   exitCode>>

\* any other exception leaves load_file, from_folder and main uncaught
LoadFileDecodeError ==
    /\ pc = "load"
    /\ ~RaisesIOError(CurrentFile.status)
    /\ RaisesDecodeError(CurrentFile.status)
    /\ path' = RECORD_TYPE(CurrentClass)
    /\ records' = <<>>
    /\ pc' = "exited"
    /\ stderr' = "UnicodeDecodeError"
    /\ exitCode' = 1
    /\ UNCHANGED <<archive, dir, typeIdx, pos, people, skipped, loaded,
                   trace, stdout>>

\* load_file returns the records; load_records starts its loop
LoadFileOk ==
    /\ pc = "load"
    /\ ~RaisesIOError(CurrentFile.status)
    /\ ~RaisesDecodeError(CurrentFile.status)
    /\ path' = RECORD_TYPE(CurrentClass)
    /\ records' = LoadFile(CurrentClass, CurrentFile.text)
    /\ pos' = 1
    /\ IF records' = <<>>
       THEN NextType
       ELSE /\ pc' = "insert"
            /\ UNCHANGED <<typeIdx, trace>>
    /\ UNCHANGED <<archive, dir, people, skipped, loaded, stdout, stderr,
                   exitCode>>

\* one iteration of load_records' loop
LoadRecord ==
    /\ pc = "insert"
    /\ HasAttr(records[pos], "unique_system_identifier")
    /\ people' = InsertRecord(people, RECORD_TYPES[typeIdx], records[pos])
    /\ loaded' = Append(loaded, [record_type |-> RECORD_TYPES[typeIdx],
                                 record |-> records[pos]])
    /\ pos' = pos + 1
    /\ IF pos = Len(records)
       THEN NextType
       ELSE UNCHANGED <<pc, typeIdx, trace>>
    /\ UNCHANGED <<archive, dir, path, records, skipped, stdout, stderr,
                   exitCode>>

\* record.unique_system_identifier raises AttributeError, uncaught
LoadRecordNoIdentifier ==
    /\ pc = "insert"
    /\ ~HasAttr(records[pos], "unique_system_identifier")
    /\ pc' = "exited"
    /\ stderr' = "AttributeError"
    /\ exitCode' = 1
    /\ UNCHANGED <<archive, dir, typeIdx, path, records, pos, people,
                   skipped, loaded, trace, stdout>>

\* the rows print_data collects, and the People after the lookups
RECURSIVE Rows(_, _)
Rows(ppl, oc) ==
    IF ppl = <<>> THEN <<>>
    ELSE LET person == Head(ppl).val
         IN  IF oc # "None" /\ PersonGetattr(person, "operator_class") # oc
             THEN Rows(Tail(ppl), oc)
             ELSE <<[i \in 1..Len(attributes) |->
                        PersonGetattr(person, attributes[i])]>>
                  \o Rows(Tail(ppl), oc)

RECURSIVE AfterLookups(_, _)
AfterLookups(person, attrs) ==
    IF attrs = <<>> THEN person
    ELSE AfterLookups(PersonAfterGetattr(person, Head(attrs)), Tail(attrs))

\* the loop over people.people.items(), tabulate, and the normal exit
PrintTable ==
    /\ pc = "built"
    /\ \E oc \in OperatorClassArgs : stdout' = <<attributes>> \o Rows(people, oc)
    /\ people' = [i \in 1..Len(people) |->
                    [people[i] EXCEPT
                        !.val = AfterLookups(@, <<"operator_class">> \o attributes)]]
    /\ pc' = "exited"
    /\ trace' = Append(trace, "print")
    /\ exitCode' = 0
    /\ UNCHANGED <<archive, dir, typeIdx, path, records, pos, skipped,
                   loaded, stderr>>

Next ==
    \/ Download
    \/ ArchiveIncomplete
    \/ Extract
    \/ LoadFileIOError
    \/ LoadFileDecodeError
    \/ LoadFileOk
    \/ LoadRecord
    \/ LoadRecordNoIdentifier
    \/ PrintTable

Spec == Init /\ [][Next]_vars

----------------------------------------------------------------------------
(* Properties *)

\* the processing sequence the specification fixes
TypeOrder == <<"header", "amateur", "entity", "vanity">>

FullOrder == <<"download", "check", "extract", "build", "print">>

\* field names looked up: of every schema, of some, of one, of none
Attrs ==
    {"record_type", "unique_system_identifier", "call_sign",
     "operator_class", "entity_name", "requested_call_sign", "reserved",
     "no_such_field"}

Persons == {people[i].val : i \in 1..Len(people)}

Range(s) == {s[i] : i \in 1..Len(s)}

IsPrefix(s, t) == Len(s) <= Len(t) /\ s = SubSeq(t, 1, Len(s))

ClassOfTag(tag) == CHOOSE cls \in Classes : RECORD_TYPE(cls) = tag

FileOfType(rt) == dir[RECORD_TYPE(Camelize(rt))]

BucketOf(person, rt) ==
    LET hit == {i \in 1..Len(person.records) : person.records[i].key = rt}
    IN  IF hit = {} THEN <<>>
        ELSE person.records[CHOOSE i \in hit : TRUE].val

\* the column text a record stores for attr; "" when it stores none
RawValue(record, attr) ==
    IF attr \in DOMAIN record.fields THEN record.fields[attr] ELSE ""

\* the records of a person's bucket with a non-empty value for attr
Holding(person, rt, attr) ==
    SelectSeq(BucketOf(person, rt), LAMBDA r : RawValue(r, attr) # "")

HoldingTypes(person, attr) ==
    {k \in 1..Len(TypeOrder) : Holding(person, TypeOrder[k], attr) # <<>>}

FirstHolding(person, attr) ==
    LET held == HoldingTypes(person, attr)
    IN  TypeOrder[CHOOSE k \in held : \A j \in held : k <= j]

\* the value of attr as a lookup shows it
Shown(record, attr) ==
    IF record.cls = "Entity"
       /\ attr \in {"entity_name", "first_name", "last_name"}
    THEN Titleize(RawValue(record, attr))
    ELSE RawValue(record, attr)

RECURSIVE CommaJoin(_)
CommaJoin(v) ==
    IF Len(v) = 1 THEN v[1]
    ELSE CommaJoin(SubSeq(v, 1, Len(v) - 1)) \o ", " \o v[Len(v)]

Uid(record) == record.fields["unique_system_identifier"]

\* the records inserted so far for one identifier and record type
RecordsFor(id, rt) ==
    LET hit == SelectSeq(loaded, LAMBDA l :
                    l.record_type = rt /\ Uid(l.record) = id)
    IN  [i \in 1..Len(hit) |-> hit[i].record]

LoadedOf(rt) ==
    LET hit == SelectSeq(loaded, LAMBDA l : l.record_type = rt)
    IN  [i \in 1..Len(hit) |-> hit[i].record]

RECURSIVE Rebuild(_)
Rebuild(seq) ==
    IF seq = <<>> THEN <<>>
    ELSE InsertRecord(Rebuild(SubSeq(seq, 1, Len(seq) - 1)),
                      seq[Len(seq)].record_type, seq[Len(seq)].record)

\* load_file has returned the records of the file named by path
Parsed == path # "" /\ dir[path].status = "ok"

\* the non-empty lines of the file named by path, each split into columns
ParsedColumns ==
    LET lines == SelectSeq(Split(dir[path].text, NL), LAMBDA l : l # <<>>)
    IN  [j \in 1..Len(lines) |-> Split(lines[j], BAR)]

\* C1 (as amended): a lookup returns what the first bucket, in the order
\* header, amateur, entity, vanity, that holds a non-empty value for the
\* field produces on its own, whatever later buckets hold; and it returns
\* "-" whenever the field is absent or empty in every record of the person.
C1_FirstBucketWins ==
    \A p \in Persons : \A attr \in Attrs :
        IF HoldingTypes(p, attr) = {}
        THEN PersonGetattr(p, attr) = "-"
        ELSE LET rt == FirstHolding(p, attr)
                 alone == [records |->
                              <<[key |-> rt, val |-> BucketOf(p, rt)]>>]
             IN  PersonGetattr(p, attr) = PersonGetattr(alone, attr)

\* C1 (as claimed): C1 as amended, and the result is "-" only when the
\* field is absent or empty in every record of every bucket.
C1_DefaultExactly ==
    /\ C1_FirstBucketWins
    /\ \A p \in Persons : \A attr \in Attrs :
          PersonGetattr(p, attr) = "-" => HoldingTypes(p, attr) = {}

\* C1 witness: built; one person has call_sign in two buckets and the
\* header's value is returned, and has no entity_name anywhere.
C1_Witness ==
    /\ pc = "built"
    /\ \E p \in Persons :
          /\ Cardinality(HoldingTypes(p, "call_sign")) >= 2
          /\ Holding(p, "header", "call_sign") # <<>>
          /\ PersonGetattr(p, "call_sign") = "W1AW"
          /\ PersonGetattr(p, "entity_name") = "-"

\* C4: the lookup returns the values the records of the resolving bucket
\* hold for the field, empty and unset ones left out, each as shown, in the
\* order the records were loaded, joined with ", "; nothing of a later
\* bucket is part of it.
C4_JoinWithinBucket ==
    \A p \in Persons : \A attr \in Attrs :
        HoldingTypes(p, attr) # {} =>
            LET h == Holding(p, FirstHolding(p, attr), attr)
            IN  PersonGetattr(p, attr) =
                    CommaJoin([i \in 1..Len(h) |-> Shown(h[i], attr)])

\* C4 witness: built; a header bucket with two non-empty call signs
\* resolves the lookup while the amateur bucket holds one too.
C4_Witness ==
    /\ pc = "built"
    /\ \E p \in Persons :
          /\ Len(Holding(p, "header", "call_sign")) = 2
          /\ Holding(p, "amateur", "call_sign") # <<>>
          /\ PersonGetattr(p, "call_sign") = "W1AW, W1AW"

\* C5: every Record stores the column text of its line untransformed (as
\* load_file returns it, and as long as a Person holds it); a
\* lookup resolved by one record returns titleize(raw) when the record's
\* class has a transform for the field and the raw text otherwise; and the
\* People mapping is, before and after the table's lookups, exactly what
\* the insertions built.
C5_TransformAtRead ==
    /\ (Parsed /\ pc = "insert") =>
          LET F == FIELDS(ClassOfTag(path))
              columns == ParsedColumns
          IN  \A j \in 1..Len(records) :
                  \A i \in 1..Min(Len(F), Len(columns[j])) :
                      F[i] \in TRANSFORMS(records[j].cls)
                          => records[j].fields[F[i]] = Str(columns[j][i])
    /\ \A p \in Persons : \A rt \in Range(TypeOrder) :
          \A r \in Range(BucketOf(p, rt)) : \A attr \in TRANSFORMS(r.cls) :
              RawValue(r, attr) \in Range(FileOfType(rt).text) \cup {""}
    /\ \A p \in Persons : \A attr \in Attrs :
          HoldingTypes(p, attr) # {} =>
              LET h == Holding(p, FirstHolding(p, attr), attr)
              IN  Len(h) = 1 =>
                      PersonGetattr(p, attr) =
                          IF attr \in TRANSFORMS(h[1].cls)
                          THEN Titleize(h[1].fields[attr])
                          ELSE h[1].fields[attr]
    /\ people = Rebuild(loaded)

\* C5 witness: the table is printed; an Entity record still stores
\* "john smith" and the lookup of entity_name gives "John Smith".
C5_Witness ==
    /\ pc = "exited"
    /\ exitCode = 0
    /\ \E p \in Persons :
          /\ \E r \in Range(BucketOf(p, "entity")) :
                RawValue(r, "entity_name") = "john smith"
          /\ PersonGetattr(p, "entity_name") = "John Smith"

\* C8: at every point of the load, each Person's bucket of a record type
\* holds exactly the records inserted so far with that type and the
\* Person's identifier, in file order; identifiers key one Person each and
\* only identifiers of inserted records do; bucket keys follow the order
\* header, amateur, entity, vanity.
C8_OnePersonPerIdentifier ==
    /\ \A i, j \in 1..Len(people) :
          people[i].key = people[j].key => i = j
    /\ DictKeys(people) = {Uid(loaded[k].record) : k \in 1..Len(loaded)}
    /\ \A i \in 1..Len(people) :
          /\ \A rt \in Range(TypeOrder) :
                BucketOf(people[i].val, rt) = RecordsFor(people[i].key, rt)
          /\ \A b \in 1..Len(people[i].val.records) :
                /\ people[i].val.records[b].key \in Range(TypeOrder)
                /\ people[i].val.records[b].val # <<>>
          /\ \A a, b \in 1..Len(people[i].val.records) :
                a < b =>
                    \E m, n \in 1..Len(TypeOrder) :
                        /\ m < n
                        /\ TypeOrder[m] = people[i].val.records[a].key
                        /\ TypeOrder[n] = people[i].val.records[b].key
    /\ pc = "insert" =>
          LoadedOf(RECORD_TYPES[typeIdx]) = SubSeq(records, 1, pos - 1)

\* C8 witness: built; two Persons, one of them with records of two types.
C8_Witness ==
    /\ pc = "built"
    /\ Len(people) = 2
    /\ \E p \in Persons : Len(p.records) >= 2

\* C2 (as claimed): build never fails on a missing file, an absent type is
\* skipped, and the returned collection holds the records of exactly the
\* types whose file is present.
C2_PresentTypesOnly ==
    /\ stderr \in {"UnicodeDecodeError", "AttributeError"}
          => dir[path].status # "absent"
    /\ \A rt \in Range(TypeOrder) :
          FileOfType(rt).status = "absent" => LoadedOf(rt) = <<>>
    /\ "build" \in Range(trace) =>
          \A rt \in Range(TypeOrder) :
              IF FileOfType(rt).status = "absent"
              THEN rt \in skipped
              ELSE /\ rt \notin skipped
                   /\ LoadedOf(rt) =
                          LoadFile(Camelize(rt), FileOfType(rt).text)

\* C3 (as claimed): only a file that does not exist is turned into a
\* skipped type; a load failure on a file that exists propagates out of
\* build and ends the run.
C3_OnlyMissingIsSkipped ==
    \A rt \in Range(TypeOrder) :
        FileOfType(rt).status \in {"denied", "undecodable"} =>
            /\ rt \notin skipped
            /\ path = RECORD_TYPE(Camelize(rt)) =>
                  pc = "exited" /\ exitCode = 1 /\ "build" \notin Range(trace)

\* C6 (as claimed): load returns one Record per non-empty line, in file
\* order; a short line leaves the unmatched trailing schema fields unset
\* and a long line's excess columns are dropped.
C6_OneRecordPerLine ==
    Parsed =>
        /\ Len(records) = Len(ParsedColumns)
        /\ \A j \in 1..Len(records) :
              LET F == FIELDS(ClassOfTag(path))
                  cols == ParsedColumns[j]
              IN  /\ Len(cols) >= 2 => Uid(records[j]) = Str(cols[2])
                  /\ \A i \in 1..Min(Len(F), Len(cols)) :
                        F[i] \in DOMAIN records[j].fields
                  /\ \A i \in (Len(cols) + 1)..Len(F) :
                        F[i] \notin DOMAIN records[j].fields
                  /\ DOMAIN records[j].fields \subseteq Range(F)

\* C10 (as claimed): for every record type and line, the field named at
\* index i of the schema holds column i of the line.
C10_PositionMapsToColumn ==
    Parsed =>
        \A j \in 1..Len(records) :
            LET F == FIELDS(ClassOfTag(path))
                cols == ParsedColumns[j]
            IN  \A i \in 1..Min(Len(F), Len(cols)) :
                    records[j].fields[F[i]] = Str(cols[i])

\* C9 (as claimed): a line whose column count differs from the schema
\* never aborts build; with every file present readable, build returns.
C9_ColumnMismatchTolerated ==
    /\ stderr # "AttributeError"
    /\ (\A t \in Tags : dir[t].status \in {"absent", "ok"})
          => (pc = "exited" /\ archive > 1 => "build" \in Range(trace))

\* C7 (as claimed): an archive of one or fewer entries ends the run with
\* the report and code 1 before anything is extracted, built or printed;
\* an archive of more entries runs download, check, extract, build, print
\* in that order and exits with code 0 (files that cannot be decoded set
\* aside).
C7_PipelineOrder ==
    /\ archive <= 1 =>
          /\ IsPrefix(trace, <<"download", "check">>)
          /\ dir = NoDir /\ people = <<>> /\ stdout = <<>>
          /\ pc = "exited" => exitCode = 1 /\ stderr = IncompleteMessage
    /\ archive > 1 =>
          /\ IsPrefix(trace, FullOrder)
          /\ (pc = "exited" /\ \A t \in Tags : dir[t].status # "undecodable")
                => exitCode = 0 /\ trace = FullOrder

====
